---- MODULE Spec2Model ----
(***************************************************************************)
(* Model of pkg/server/auth.go: Server.authRequest, the authentication and *)
(* authorization pipeline of a certificate-signing request, and            *)
(* identitiesMatch, the comparison of the authenticated identities with   *)
(* the URI SANs of the CSR.                                                *)
(*                                                                         *)
(* Strings are sequences of character codes, so that Go's byte-wise       *)
(* string order, strings.Join and url.URL.String() are computed and not   *)
(* assumed.                                                                *)
(***************************************************************************)
EXTENDS Integers, Sequences, FiniteSets, TLC

\* ------------------------------------------------------------------ bounds
\* longest authenticator list configured on the Server
MaxAuthenticators == 3
\* longest identity list of a Caller and longest URI SAN list of a CSR
MaxIds == 2
\* longest argument of identitiesMatch in SpecMatch
MatchMaxLen == 3

\* ----------------------------------------------------------------- strings
EmptyStr == <<>>
StrA == <<97>>
StrB == <<98>>
Colon == <<58>>
Comma == <<44>>

\* Go's < on strings: byte-wise lexicographic order
RECURSIVE StrLess(_, _)
StrLess(s, t) ==
    IF t = <<>> THEN FALSE
    ELSE IF s = <<>> THEN TRUE
    ELSE IF s[1] < t[1] THEN TRUE
    ELSE IF s[1] > t[1] THEN FALSE
    ELSE StrLess(Tail(s), Tail(t))

\* *url.URL reduced to the fields that the CSRs of the model use: the URI
\* SANs of the pipeline are the empty URI and the URI "a:b"
URLs ==
    { [Scheme |-> EmptyStr, Path |-> EmptyStr],
      [Scheme |-> StrA, Path |-> StrB] }

\* the URIs identitiesMatch is called with when it is checked alone
MatchURLs ==
    URLs \cup { [Scheme |-> EmptyStr, Path |-> StrA],
                [Scheme |-> EmptyStr, Path |-> StrB] }

\* (*url.URL).String(): scheme, ":" when a scheme is set, then the path
URLString(u) ==
    IF u.Scheme # EmptyStr THEN u.Scheme \o Colon \o u.Path ELSE u.Path

\* the identity strings an authenticator or the request metadata may carry
IdStrings == { URLString(u) : u \in URLs }

\* the strings identitiesMatch is called with when it is checked alone
MatchStrings == { URLString(u) : u \in MatchURLs }

\* all sequences over S of length at most n
SeqsUpTo(S, n) == UNION { [1..k -> S] : k \in 0..n }

\* a join that drops the separator
RECURSIVE JoinWithoutSeparator(_, _)
JoinWithoutSeparator(elems, sep) ==
    IF elems = <<>> THEN EmptyStr
    ELSE elems[1] \o JoinWithoutSeparator(Tail(elems), sep)

\* strings.Join(elems, sep)
RECURSIVE Join(_, _)
Join(elems, sep) ==
    IF elems = <<>> THEN EmptyStr
    ELSE IF Len(elems) = 1 THEN elems[1]
    ELSE elems[1] \o sep \o Join(Tail(elems), sep)

\* ------------------------------------------------------- identitiesMatch
\* insert x into the sorted sequence s, after every element not greater
RECURSIVE InsertString(_, _)
InsertString(s, x) ==
    IF s = <<>> THEN <<x>>
    ELSE IF StrLess(x, s[1]) THEN <<x>> \o s
    ELSE <<s[1]>> \o InsertString(Tail(s), x)

\* a sort that leaves the slice in its original order
SortStringsUnsorted(a) == a

\* sort.Strings(aa)
RECURSIVE SortStrings(_)
SortStrings(a) ==
    IF a = <<>> THEN <<>>
    ELSE InsertString(SortStrings(SubSeq(a, 1, Len(a) - 1)), a[Len(a)])

\* insert u into s sorted by String(), after every element not greater:
\* equal keys keep their original order
RECURSIVE InsertURL(_, _)
InsertURL(s, u) ==
    IF s = <<>> THEN <<u>>
    ELSE IF StrLess(URLString(u), URLString(s[1])) THEN <<u>> \o s
    ELSE <<s[1]>> \o InsertURL(Tail(s), u)

\* sort.SliceStable(bb, func(i, j) bool { return bb[i].String() < bb[j].String() })
RECURSIVE SortURLsStable(_)
SortURLsStable(b) ==
    IF b = <<>> THEN <<>>
    ELSE InsertURL(SortURLsStable(SubSeq(b, 1, Len(b) - 1)), b[Len(b)])

\* the sorts applied to the arguments themselves: aa and bb stay copies in
\* the original order
identitiesMatchSortsInPlace(a, b) ==
    IF Len(a) # Len(b)
      THEN [a |-> a, b |-> b, aa |-> <<>>, bb |-> <<>>]
      ELSE [a |-> SortStrings(a), b |-> SortURLsStable(b), aa |-> a, bb |-> b]

\* the slices after an identitiesMatch call: the arguments a and b, and the
\* copies aa and bb that the call makes and sorts when the lengths agree
identitiesMatchSlices(a, b) ==
    IF Len(a) # Len(b)
      THEN [a |-> a, b |-> b, aa |-> <<>>, bb |-> <<>>]
      ELSE [a |-> a, b |-> b, aa |-> SortStrings(a), bb |-> SortURLsStable(b)]

\* a comparison that stops after the length test
identitiesMatchLengthOnly(a, b) == Len(a) = Len(b)

identitiesMatch(a, b) ==
    IF Len(a) # Len(b) THEN FALSE
    ELSE LET aa == SortStrings(a)
             bb == SortURLsStable(b)
         IN  \A i \in 1..Len(aa) : URLString(bb[i]) = aa[i]


\* ------------------------------------------------------------------ state
VARIABLES
    authenticators,        \* s.authenticators: the configured plugins, in order
    nodeAuthorizer,        \* s.nodeAuthorizer # nil
    metadata,              \* icr.Metadata of the request
    ctxDone,               \* ctx: its cancellation signal has fired
    pc,                    \* position of authRequest
    idx,                   \* position of the range loop over s.authenticators
    caller,                \* var caller *security.Caller
    found,                 \* found
    errs,                  \* errs: the plugins whose error was collected
    identities,            \* var identities string
    impersonatedIdentity,  \* impersonatedIdentity
    csr,                   \* csr: the decoded request
    result,                \* the returned (string, bool)
    reason,                \* the return statement taken, by its error kind
    invoked,               \* the Authenticate calls and what each returned, in order
    nodeAuthCalls,         \* the authenticateImpersonation calls: arguments and answer
    csrOps,                \* the operations performed on the CSR and their outcome, in order
    matchCalled,           \* identitiesMatch has been called
    matchArgs,             \* the arguments of the identitiesMatch call
    matchResult            \* the value identitiesMatch returned

config == <<authenticators, nodeAuthorizer>>
request == <<metadata>>
locals == <<idx, caller, found, errs, identities, impersonatedIdentity, csr>>
returned == <<result, reason>>
calls == <<invoked, nodeAuthCalls, csrOps>>
matching == <<matchCalled, matchArgs, matchResult>>
vars == <<config, request, ctxDone, pc, locals, returned, calls, matching>>

\* ----------------------------------------------------------------- values
\* caller.KubernetesInfo: the platform metadata an authenticator reports
KubernetesInfos == {"node-1", "node-2"}

NilCaller == [Identities |-> <<>>, KubernetesInfo |-> "nil"]

\* the Callers an authenticator may return with a nil error
Callers ==
    [Identities : SeqsUpTo(IdStrings, MaxIds), KubernetesInfo : KubernetesInfos]

NilCSR == [IPAddresses |-> <<>>, EmailAddresses |-> <<>>, URIs |-> <<>>]

\* the x509.CertificateRequests ParsePemEncodedCSR may return
CSRs ==
    [IPAddresses : {<<>>, <<"10.0.0.1">>},
     EmailAddresses : {<<>>, <<"a@b">>},
     URIs : SeqsUpTo(URLs, MaxIds)]

\* icr.Metadata: no metadata, no impersonation field, a field that holds no
\* string, or a field that holds a string
Metadatas ==
    { [kind |-> k, str |-> EmptyStr] : k \in {"nil", "nofield", "number"} }
    \cup { [kind |-> "string", str |-> s] : s \in IdStrings }

\* icr.GetMetadata().GetFields()[security.ImpersonatedIdentity].GetStringValue()
GetStringValue(m) == IF m.kind = "string" THEN m.str ELSE EmptyStr

NoResult == [identity |-> EmptyStr, authorized |-> FALSE]
NoMatchArgs == [a |-> <<>>, b |-> <<>>]

\* ------------------------------------------------------------------- Init
Init ==
    /\ authenticators \in { [j \in 1..n |-> j] : n \in 0..MaxAuthenticators }
    /\ nodeAuthorizer \in BOOLEAN
    /\ metadata \in Metadatas
    /\ ctxDone = FALSE
    /\ pc = "authenticate"
    /\ idx = 1
    /\ caller = NilCaller
    /\ found = FALSE
    /\ errs = <<>>
    /\ identities = EmptyStr
    /\ impersonatedIdentity = EmptyStr
    /\ csr = NilCSR
    /\ result = NoResult
    /\ reason = "Running"
    /\ invoked = <<>>
    /\ nodeAuthCalls = <<>>
    /\ csrOps = <<>>
    /\ matchCalled = FALSE
    /\ matchArgs = NoMatchArgs
    /\ matchResult = FALSE

\* return id, ok: the statement that ends authRequest
Return(id, ok, why) ==
    /\ result' = [identity |-> id, authorized |-> ok]
    /\ reason' = why
    /\ pc' = "done"

\* ---------------------------------------------------------------- actions
\* ctx as the transport layer hands it to authRequest
SessionContext == [name |-> "session", done |-> ctxDone]

\* context.Background(): a context that is never cancelled
BackgroundContext == [name |-> "background", done |-> FALSE]

\* authenticator.Authenticate(security.AuthContext{GrpcContext: ctx}) and
\* what it returned
AuthenticateCall(ctx, ok, c) ==
    [authenticator |-> authenticators[idx], GrpcContext |-> ctx,
     ok |-> ok, caller |-> c]

\* a failed plugin is removed from the Server's list
AuthenticateDropsFailed ==
    /\ pc = "authenticate"
    /\ idx <= Len(authenticators)
    /\ \/ \E c \in Callers :
            /\ invoked' = Append(invoked,
                    AuthenticateCall(SessionContext, TRUE, c))
            /\ caller' = c
            /\ found' = TRUE
            /\ pc' = "checkFound"
            /\ UNCHANGED <<idx, errs, authenticators>>
       \/ /\ invoked' = Append(invoked,
                  AuthenticateCall(SessionContext, FALSE, NilCaller))
          /\ caller' = NilCaller
          /\ errs' = Append(errs, authenticators[idx])
          /\ authenticators' = [k \in 1..(Len(authenticators) - 1) |->
                                   IF k < idx THEN authenticators[k]
                                              ELSE authenticators[k + 1]]
          /\ UNCHANGED <<idx, found, pc>>
    /\ UNCHANGED <<nodeAuthorizer, request, ctxDone, identities,
                   impersonatedIdentity, csr, returned, nodeAuthCalls, csrOps,
                   matching>>

\* the plugins are called with a fresh context, not with ctx
AuthenticateBackgroundContext ==
    /\ pc = "authenticate"
    /\ idx <= Len(authenticators)
    /\ \/ \E c \in Callers :
            /\ invoked' = Append(invoked,
                    AuthenticateCall(BackgroundContext, TRUE, c))
            /\ caller' = c
            /\ found' = TRUE
            /\ pc' = "checkFound"
            /\ UNCHANGED <<idx, errs>>
       \/ /\ invoked' = Append(invoked,
                  AuthenticateCall(BackgroundContext, FALSE, NilCaller))
          /\ caller' = NilCaller
          /\ errs' = Append(errs, authenticators[idx])
          /\ idx' = idx + 1
          /\ UNCHANGED <<found, pc>>
    /\ UNCHANGED <<config, request, ctxDone, identities, impersonatedIdentity,
                   csr, returned, nodeAuthCalls, csrOps, matching>>

\* the loop without its break: a later plugin overwrites the Caller
AuthenticateNoBreak ==
    /\ pc = "authenticate"
    /\ idx <= Len(authenticators)
    /\ \/ \E c \in Callers :
            /\ invoked' = Append(invoked,
                    AuthenticateCall(SessionContext, TRUE, c))
            /\ caller' = c
            /\ found' = TRUE
            /\ idx' = idx + 1
            /\ UNCHANGED <<pc, errs>>
       \/ /\ invoked' = Append(invoked,
                  AuthenticateCall(SessionContext, FALSE, NilCaller))
          /\ caller' = NilCaller
          /\ errs' = Append(errs, authenticators[idx])
          /\ idx' = idx + 1
          /\ UNCHANGED <<found, pc>>
    /\ UNCHANGED <<config, request, ctxDone, identities, impersonatedIdentity,
                   csr, returned, nodeAuthCalls, csrOps, matching>>

\* one iteration of the loop over s.authenticators
Authenticate ==
    /\ pc = "authenticate"
    /\ idx <= Len(authenticators)
    /\ \/ \E c \in Callers :
            /\ invoked' = Append(invoked,
                    AuthenticateCall(SessionContext, TRUE, c))
            /\ caller' = c
            /\ found' = TRUE
            /\ pc' = "checkFound"
            /\ UNCHANGED <<idx, errs>>
       \/ /\ invoked' = Append(invoked,
                  AuthenticateCall(SessionContext, FALSE, NilCaller))
          /\ caller' = NilCaller
          /\ errs' = Append(errs, authenticators[idx])
          /\ idx' = idx + 1
          /\ UNCHANGED <<found, pc>>
    /\ UNCHANGED <<config, request, ctxDone, identities, impersonatedIdentity,
                   csr, returned, nodeAuthCalls, csrOps, matching>>

\* the end of the loop reads the first collected error: with no plugin
\* configured there is none and the call never returns
AuthenticateExhaustedReadsFirstError ==
    /\ pc = "authenticate"
    /\ idx > Len(authenticators)
    /\ Len(errs) > 0
    /\ pc' = "checkFound"
    /\ UNCHANGED <<config, request, ctxDone, locals, returned, calls, matching>>

\* the loop ends with no plugin left
AuthenticateExhausted ==
    /\ pc = "authenticate"
    /\ idx > Len(authenticators)
    /\ pc' = "checkFound"
    /\ UNCHANGED <<config, request, ctxDone, locals, returned, calls, matching>>

\* the pipeline without the test of found
CheckFoundSkipped ==
    /\ pc = "checkFound"
    /\ pc' = "checkIdentities"
    /\ UNCHANGED <<config, request, ctxDone, locals, returned, calls, matching>>

\* if !found { return "", false }
CheckFound ==
    /\ pc = "checkFound"
    /\ IF ~found
         THEN Return(EmptyStr, FALSE, "AuthenticationFailed")
         ELSE pc' = "checkIdentities" /\ UNCHANGED returned
    /\ UNCHANGED <<config, request, ctxDone, locals, calls, matching>>

\* the pipeline without the test of the Caller's identities
CheckIdentitiesSkipped ==
    /\ pc = "checkIdentities"
    /\ pc' = "impersonation"
    /\ UNCHANGED <<config, request, ctxDone, locals, returned, calls, matching>>

\* if len(caller.Identities) == 0 { return "", false }
CheckIdentities ==
    /\ pc = "checkIdentities"
    /\ IF Len(caller.Identities) = 0
         THEN Return(EmptyStr, FALSE, "NoIdentity")
         ELSE pc' = "impersonation" /\ UNCHANGED returned
    /\ UNCHANGED <<config, request, ctxDone, locals, calls, matching>>

\* the nil test of the node authorizer made before the test of the
\* impersonated identity: no node authorizer, no request
ReadImpersonatedIdentityRequiresAuthorizer ==
    /\ pc = "impersonation"
    /\ impersonatedIdentity' = GetStringValue(metadata)
    /\ IF ~nodeAuthorizer
         THEN Return(EmptyStr, FALSE, "ImpersonationNotConfigured")
         ELSE IF impersonatedIdentity' # EmptyStr
                THEN pc' = "authenticateImpersonation" /\ UNCHANGED returned
                ELSE pc' = "parseCSR" /\ UNCHANGED returned
    /\ identities' = IF impersonatedIdentity' # EmptyStr \/ ~nodeAuthorizer
                       THEN identities
                       ELSE Join(caller.Identities, Comma)
    /\ UNCHANGED <<config, request, ctxDone, idx, caller, found, errs, csr,
                   calls, matching>>

\* impersonation that is accepted when no node authorizer is configured
ReadImpersonatedIdentityFailOpen ==
    /\ pc = "impersonation"
    /\ impersonatedIdentity' = GetStringValue(metadata)
    /\ IF impersonatedIdentity' # EmptyStr /\ nodeAuthorizer
         THEN pc' = "authenticateImpersonation"
         ELSE pc' = "parseCSR"
    /\ identities' = IF impersonatedIdentity' # EmptyStr
                       THEN (IF nodeAuthorizer THEN identities
                                               ELSE impersonatedIdentity')
                       ELSE Join(caller.Identities, Comma)
    /\ UNCHANGED <<config, request, ctxDone, idx, caller, found, errs, csr,
                   returned, calls, matching>>

\* read the impersonated identity; without one the identities are the
\* Caller's, joined; with one and no node authorizer the request is denied
ReadImpersonatedIdentity ==
    /\ pc = "impersonation"
    /\ impersonatedIdentity' = GetStringValue(metadata)
    /\ IF impersonatedIdentity' # EmptyStr
         THEN IF ~nodeAuthorizer
                THEN Return(EmptyStr, FALSE, "ImpersonationNotConfigured")
                ELSE pc' = "authenticateImpersonation" /\ UNCHANGED returned
         ELSE pc' = "parseCSR" /\ UNCHANGED returned
    /\ identities' = IF impersonatedIdentity' # EmptyStr
                       THEN identities
                       ELSE Join(caller.Identities, Comma)
    /\ UNCHANGED <<config, request, ctxDone, idx, caller, found, errs, csr,
                   calls, matching>>

\* the arguments of the authenticateImpersonation call, with its answer
ImpersonationCall(allowed) ==
    [info |-> caller.KubernetesInfo, identity |-> impersonatedIdentity,
     allowed |-> allowed]

\* identities is assigned before the node authorizer is asked, so a
\* refusal returns the requested identity
AuthenticateImpersonationLeaksIdentity ==
    /\ pc = "authenticateImpersonation"
    /\ identities' = impersonatedIdentity
    /\ \/ /\ nodeAuthCalls' = Append(nodeAuthCalls, ImpersonationCall(FALSE))
          /\ Return(identities', FALSE, "ImpersonationDenied")
       \/ /\ nodeAuthCalls' = Append(nodeAuthCalls, ImpersonationCall(TRUE))
          /\ pc' = "parseCSR"
          /\ UNCHANGED returned
    /\ UNCHANGED <<config, request, ctxDone, idx, caller, found, errs,
                   impersonatedIdentity, csr, invoked, csrOps, matching>>

\* the node authorizer's error is logged and the request goes on
AuthenticateImpersonationErrorIgnored ==
    /\ pc = "authenticateImpersonation"
    /\ \E allowed \in BOOLEAN :
         nodeAuthCalls' = Append(nodeAuthCalls, ImpersonationCall(allowed))
    /\ identities' = impersonatedIdentity
    /\ pc' = "parseCSR"
    /\ UNCHANGED <<config, request, ctxDone, idx, caller, found, errs,
                   impersonatedIdentity, csr, returned, invoked, csrOps,
                   matching>>

\* s.nodeAuthorizer.authenticateImpersonation(caller.KubernetesInfo, impersonatedIdentity)
AuthenticateImpersonation ==
    /\ pc = "authenticateImpersonation"
    /\ \/ /\ nodeAuthCalls' = Append(nodeAuthCalls, ImpersonationCall(FALSE))
          /\ Return(identities, FALSE, "ImpersonationDenied")
          /\ UNCHANGED identities
       \/ /\ nodeAuthCalls' = Append(nodeAuthCalls, ImpersonationCall(TRUE))
          /\ identities' = impersonatedIdentity
          /\ pc' = "parseCSR"
          /\ UNCHANGED returned
    /\ UNCHANGED <<config, request, ctxDone, idx, caller, found, errs,
                   impersonatedIdentity, csr, invoked, csrOps, matching>>

\* the SANs are looked at right after decoding: the signature check is
\* left out
ParseCSRThenSANs ==
    /\ pc = "parseCSR"
    /\ \/ /\ csrOps' = Append(csrOps, [op |-> "parse", ok |-> FALSE])
          /\ Return(identities, FALSE, "CSRDecodeError")
          /\ UNCHANGED csr
       \/ \E c \in CSRs :
            /\ csrOps' = Append(csrOps, [op |-> "parse", ok |-> TRUE])
            /\ csr' = c
            /\ pc' = "checkSANs"
            /\ UNCHANGED returned
    /\ UNCHANGED <<config, request, ctxDone, idx, caller, found, errs,
                   identities, impersonatedIdentity, invoked, nodeAuthCalls,
                   matching>>

\* pkiutil.ParsePemEncodedCSR([]byte(icr.GetCsr()))
ParseCSR ==
    /\ pc = "parseCSR"
    /\ \/ /\ csrOps' = Append(csrOps, [op |-> "parse", ok |-> FALSE])
          /\ Return(identities, FALSE, "CSRDecodeError")
          /\ UNCHANGED csr
       \/ \E c \in CSRs :
            /\ csrOps' = Append(csrOps, [op |-> "parse", ok |-> TRUE])
            /\ csr' = c
            /\ pc' = "checkSignature"
            /\ UNCHANGED returned
    /\ UNCHANGED <<config, request, ctxDone, idx, caller, found, errs,
                   identities, impersonatedIdentity, invoked, nodeAuthCalls,
                   matching>>

\* a signature failure returned with the empty identity string
CheckSignatureDropsIdentity ==
    /\ pc = "checkSignature"
    /\ \/ /\ csrOps' = Append(csrOps, [op |-> "signature", ok |-> FALSE])
          /\ Return(EmptyStr, FALSE, "SignatureInvalid")
       \/ /\ csrOps' = Append(csrOps, [op |-> "signature", ok |-> TRUE])
          /\ pc' = "checkSANs"
          /\ UNCHANGED returned
    /\ UNCHANGED <<config, request, ctxDone, locals, invoked, nodeAuthCalls,
                   matching>>

\* csr.CheckSignature()
CheckSignature ==
    /\ pc = "checkSignature"
    /\ \/ /\ csrOps' = Append(csrOps, [op |-> "signature", ok |-> FALSE])
          /\ Return(identities, FALSE, "SignatureInvalid")
       \/ /\ csrOps' = Append(csrOps, [op |-> "signature", ok |-> TRUE])
          /\ pc' = "checkSANs"
          /\ UNCHANGED returned
    /\ UNCHANGED <<config, request, ctxDone, locals, invoked, nodeAuthCalls,
                   matching>>

\* && in place of ||
HasForbiddenSANsBoth(c) == Len(c.IPAddresses) > 0 /\ Len(c.EmailAddresses) > 0

\* len(csr.IPAddresses) > 0 || len(csr.EmailAddresses) > 0
HasForbiddenSANs(c) == Len(c.IPAddresses) > 0 \/ Len(c.EmailAddresses) > 0

\* if the csr contains any other options set, error
CheckSANs ==
    /\ pc = "checkSANs"
    /\ csrOps' = Append(csrOps, [op |-> "sans", ok |-> ~HasForbiddenSANs(csr)])
    /\ IF HasForbiddenSANs(csr)
         THEN Return(identities, FALSE, "ForbiddenExtension")
         ELSE pc' = "validateExtensions" /\ UNCHANGED returned
    /\ UNCHANGED <<config, request, ctxDone, locals, invoked, nodeAuthCalls,
                   matching>>

\* extensions.ValidateCSRExtentions(csr)
ValidateCSRExtentions ==
    /\ pc = "validateExtensions"
    /\ \/ /\ csrOps' = Append(csrOps, [op |-> "extensions", ok |-> FALSE])
          /\ Return(identities, FALSE, "ForbiddenCustomExtension")
       \/ /\ csrOps' = Append(csrOps, [op |-> "extensions", ok |-> TRUE])
          /\ pc' = "match"
          /\ UNCHANGED returned
    /\ UNCHANGED <<config, request, ctxDone, locals, invoked, nodeAuthCalls,
                   matching>>

\* the Caller's identities are compared even when impersonating
ExpectedIdentitiesOfCaller == caller.Identities

\* the identity list that is compared with csr.URIs
ExpectedIdentities ==
    IF impersonatedIdentity = EmptyStr
      THEN caller.Identities
      ELSE <<impersonatedIdentity>>

\* the identitiesMatch call and the final return
MatchIdentities ==
    /\ pc = "match"
    /\ matchCalled' = TRUE
    /\ matchArgs' = [a |-> ExpectedIdentities, b |-> csr.URIs]
    /\ matchResult' = identitiesMatch(ExpectedIdentities, csr.URIs)
    /\ csrOps' = Append(csrOps, [op |-> "match", ok |-> matchResult'])
    /\ caller' = IF impersonatedIdentity = EmptyStr
                   THEN [caller EXCEPT !.Identities =
                            identitiesMatchSlices(caller.Identities, csr.URIs).a]
                   ELSE caller
    /\ csr' = [csr EXCEPT !.URIs =
                  identitiesMatchSlices(ExpectedIdentities, csr.URIs).b]
    /\ IF ~matchResult'
         THEN Return(identities, FALSE, "IdentityMismatch")
         ELSE Return(identities, TRUE, "Authorized")
    /\ UNCHANGED <<config, request, ctxDone, idx, found, errs, identities,
                   impersonatedIdentity, invoked, nodeAuthCalls>>

Next ==
    \/ Authenticate
    \/ AuthenticateExhausted
    \/ CheckFound
    \/ CheckIdentities
    \/ ReadImpersonatedIdentity
    \/ AuthenticateImpersonation
    \/ ParseCSR
    \/ CheckSignature
    \/ CheckSANs
    \/ ValidateCSRExtentions
    \/ MatchIdentities

Spec == Init /\ [][Next]_vars

\* ------------------------------------------------------- cancellation
\* the transport layer cancels ctx while authRequest is running
Cancel ==
    /\ pc # "done"
    /\ ~ctxDone
    /\ ctxDone' = TRUE
    /\ UNCHANGED <<config, request, pc, locals, returned, calls, matching>>

NextCancel == Next \/ Cancel

SpecCancel == Init /\ [][NextCancel]_vars

\* ------------------------------------------------ identitiesMatch alone
\* identitiesMatch called on any two lists of at most MatchMaxLen elements
InitMatch ==
    /\ authenticators = <<>>
    /\ nodeAuthorizer = FALSE
    /\ metadata = [kind |-> "nil", str |-> EmptyStr]
    /\ ctxDone = FALSE
    /\ pc = "identitiesMatch"
    /\ idx = 1
    /\ caller = NilCaller
    /\ found = FALSE
    /\ errs = <<>>
    /\ identities = EmptyStr
    /\ impersonatedIdentity = EmptyStr
    /\ csr = NilCSR
    /\ result = NoResult
    /\ reason = "Running"
    /\ invoked = <<>>
    /\ nodeAuthCalls = <<>>
    /\ csrOps = <<>>
    /\ matchCalled = FALSE
    /\ matchArgs \in [a : SeqsUpTo(MatchStrings, MatchMaxLen),
                       b : SeqsUpTo(MatchURLs, MatchMaxLen)]
    /\ matchResult = FALSE

CallIdentitiesMatch ==
    /\ pc = "identitiesMatch"
    /\ matchCalled' = TRUE
    /\ matchResult' = identitiesMatch(matchArgs.a, matchArgs.b)
    /\ pc' = "done"
    /\ UNCHANGED <<config, request, ctxDone, locals, returned, calls, matchArgs>>

NextMatch == CallIdentitiesMatch

SpecMatch == InitMatch /\ [][NextMatch]_vars


\* ------------------------------------------------------------ properties
\* number of positions of seq that hold x
Count(seq, x) == Cardinality({ k \in 1..Len(seq) : seq[k] = x })

Elements(seq) == { seq[k] : k \in 1..Len(seq) }

\* the two sequences hold the same elements the same number of times
SameMultiset(s, t) ==
    \A x \in Elements(s) \cup Elements(t) : Count(s, x) = Count(t, x)

\* the string form of each URI of the list
URIStrings(b) == [k \in 1..Len(b) |-> URLString(b[k])]

\* C8: identitiesMatch(expected, actual) is true exactly when expected and
\* the string forms of actual are equal as multisets; in particular it is
\* false whenever the lengths differ and a repeated name counts every time.
C8_MatchIsMultisetEquality ==
    matchCalled =>
        /\ matchResult <=> SameMultiset(matchArgs.a, URIStrings(matchArgs.b))
        /\ Len(matchArgs.a) # Len(matchArgs.b) => ~matchResult

\* identitiesMatch accepted two lists that list the same two distinct
\* names in different orders
C8_Witness ==
    /\ pc = "done"
    /\ matchCalled
    /\ matchResult
    /\ Len(matchArgs.a) = 2
    /\ matchArgs.a[1] # matchArgs.a[2]
    /\ matchArgs.a # URIStrings(matchArgs.b)


\* ---- what the recorded calls say about the invocation
\* some Authenticate call returned a nil error
SomeSucceeded == \E k \in 1..Len(invoked) : invoked[k].ok

\* the position of the first Authenticate call that returned a nil error
FirstSuccess ==
    CHOOSE k \in 1..Len(invoked) :
        invoked[k].ok /\ \A j \in 1..(k - 1) : ~invoked[j].ok

\* the Caller returned by the first successful authenticator
FirstCaller == IF SomeSucceeded THEN invoked[FirstSuccess].caller ELSE NilCaller

\* every configured authenticator was called and failed
AllFailed ==
    /\ Len(invoked) = Len(authenticators)
    /\ \A k \in 1..Len(invoked) : ~invoked[k].ok

\* the request carries a non-empty impersonatedIdentity string
ImpersonationRequested == metadata.kind = "string" /\ metadata.str # EmptyStr

RequestedIdentity == metadata.str

\* the node authorizer was asked and accepted
ImpersonationAccepted ==
    Len(nodeAuthCalls) >= 1 /\ nodeAuthCalls[1].allowed

\* the node authorizer was asked and refused
ImpersonationRefused ==
    Len(nodeAuthCalls) >= 1 /\ ~nodeAuthCalls[1].allowed

\* the operation op was performed on the CSR and succeeded
OpOK(op) == \E k \in 1..Len(csrOps) : csrOps[k].op = op /\ csrOps[k].ok

\* the CSR carries an IP SAN or an email SAN
CarriesIPOrEmail == csr.IPAddresses # <<>> \/ csr.EmailAddresses # <<>>

\* the identity set the CSR has to name
ValidatedIdentities ==
    IF ImpersonationRequested THEN <<RequestedIdentity>>
                              ELSE FirstCaller.Identities

\* the elements of ids in order, a "," between any two neighbours
JoinedByComma(ids) ==
    LET F[k \in 0..Len(ids)] ==
            IF k = 0 THEN EmptyStr
            ELSE IF k = 1 THEN ids[1]
            ELSE F[k - 1] \o Comma \o ids[k]
    IN  F[Len(ids)]

Denied(why) == pc = "done" /\ reason = why /\ ~result.authorized

\* authorized = true only after every step of the pipeline passed
AuthorizedOnlyIfAllPassed ==
    result.authorized =>
        /\ pc = "done"
        /\ SomeSucceeded
        /\ Len(FirstCaller.Identities) > 0
        /\ ImpersonationRequested =>
              /\ nodeAuthorizer
              /\ Len(nodeAuthCalls) = 1
              /\ nodeAuthCalls[1].allowed
              /\ nodeAuthCalls[1].identity = RequestedIdentity
        /\ OpOK("parse")
        /\ OpOK("signature")
        /\ ~CarriesIPOrEmail
        /\ OpOK("extensions")
        /\ SameMultiset(ValidatedIdentities, URIStrings(csr.URIs))

\* C1 as stated: authorized = true only if every step passed, and a Caller
\* identity set that differs from the URI SANs of the decoded CSR always
\* ends in Denied(IdentityMismatch).
C1_Original ==
    /\ AuthorizedOnlyIfAllPassed
    /\ ( /\ pc = "done"
         /\ SomeSucceeded
         /\ OpOK("parse")
         /\ ~SameMultiset(FirstCaller.Identities, URIStrings(csr.URIs)) )
       => Denied("IdentityMismatch")

\* C1 amended: authorized = true only if every step passed (authentication,
\* at least one identity, accepted impersonation when one is requested,
\* decoding, signature, no IP and no email SAN, extension validator, and the
\* validated identity set equal to the URI SANs); without impersonation a
\* Caller identity set that differs from the URI SANs of a CSR that passed
\* every earlier check ends in Denied(IdentityMismatch).
C1_AuthorizedOnlyIfAllChecksPass ==
    /\ AuthorizedOnlyIfAllPassed
    /\ ( /\ pc = "done"
         /\ ~ImpersonationRequested
         /\ OpOK("extensions")
         /\ ~SameMultiset(FirstCaller.Identities, URIStrings(csr.URIs)) )
       => Denied("IdentityMismatch")

\* a request is authorized through an accepted impersonation although the
\* Caller's own identities differ from the URI SANs of the CSR
C1_Witness ==
    /\ result.authorized
    /\ ImpersonationRequested
    /\ ~SameMultiset(FirstCaller.Identities, URIStrings(csr.URIs))

\* C2: when every configured authenticator fails (also when none is
\* configured) the result is Denied(AuthenticationFailed) with identity ""
\* and authorized = false, the node authorizer is never asked and the CSR
\* is never examined.
C2_AllFailDenied ==
    AllFailed =>
        /\ nodeAuthCalls = <<>>
        /\ csrOps = <<>>
        /\ ~matchCalled
        /\ pc = "done" =>
              /\ reason = "AuthenticationFailed"
              /\ result = [identity |-> EmptyStr, authorized |-> FALSE]

\* two configured authenticators both failed and the call returned
C2_Witness ==
    /\ pc = "done"
    /\ AllFailed
    /\ Len(invoked) = 2

\* C3: the authenticators are called in configured order, each at most
\* once, none after the first success, and every later step uses the Caller
\* of that first success.
C3_ShortCircuit ==
    /\ Len(invoked) <= Len(authenticators)
    /\ \A k \in 1..Len(invoked) :
          /\ invoked[k].authenticator = authenticators[k]
          /\ invoked[k].ok => k = Len(invoked)
    /\ (SomeSucceeded /\ pc # "authenticate") => caller = FirstCaller
    /\ \A k \in 1..Len(nodeAuthCalls) :
          nodeAuthCalls[k].info = FirstCaller.KubernetesInfo
    /\ (matchCalled /\ ~ImpersonationRequested) =>
          matchArgs.a = FirstCaller.Identities
    /\ (pc = "done" /\ ~ImpersonationRequested /\ OpOK("parse")) =>
          result.identity = JoinedByComma(FirstCaller.Identities)

\* of three configured authenticators the first failed, the second
\* succeeded, the third was never called and the Caller reached the matcher
C3_Witness ==
    /\ pc = "done"
    /\ Len(authenticators) = 3
    /\ Len(invoked) = 2
    /\ ~invoked[1].ok
    /\ invoked[2].ok
    /\ matchCalled

\* C4: a non-empty impersonatedIdentity with no node authorizer configured
\* ends, once authentication succeeded with an identity, in
\* Denied(ImpersonationNotConfigured), and the CSR is never decoded or checked.
C4_ImpersonationFailClosed ==
    (ImpersonationRequested /\ ~nodeAuthorizer) =>
        /\ csrOps = <<>>
        /\ nodeAuthCalls = <<>>
        /\ ~matchCalled
        /\ (pc = "done" /\ SomeSucceeded /\ Len(FirstCaller.Identities) > 0) =>
              Denied("ImpersonationNotConfigured")

\* an authenticated caller asked for an impersonation that is not configured
C4_Witness ==
    /\ pc = "done"
    /\ ImpersonationRequested
    /\ ~nodeAuthorizer
    /\ SomeSucceeded
    /\ Len(FirstCaller.Identities) > 0

\* C5: the node authorizer is asked with the Caller's platform metadata and
\* the impersonated identity; a negative answer ends in
\* Denied(ImpersonationDenied) and nothing is done with the CSR.
C5_ImpersonationDenied ==
    /\ \A k \in 1..Len(nodeAuthCalls) :
          /\ ImpersonationRequested
          /\ nodeAuthorizer
          /\ nodeAuthCalls[k].info = FirstCaller.KubernetesInfo
          /\ nodeAuthCalls[k].identity = RequestedIdentity
    /\ ( /\ pc = "done"
         /\ ImpersonationRequested
         /\ nodeAuthorizer
         /\ SomeSucceeded
         /\ Len(FirstCaller.Identities) > 0 )
       => Len(nodeAuthCalls) = 1
    /\ ImpersonationRefused =>
          /\ Denied("ImpersonationDenied")
          /\ csrOps = <<>>
          /\ ~matchCalled

\* the node authorizer refused the impersonation
C5_Witness ==
    /\ pc = "done"
    /\ ImpersonationRefused
    /\ invoked[Len(invoked)].caller.KubernetesInfo = "node-2"

\* C6: after an accepted impersonation the list compared with the CSR is
\* exactly [impersonatedIdentity]: authorized only if the CSR has one URI SAN
\* equal to it, a CSR naming the Caller's own different identities is
\* Denied(IdentityMismatch), and the identity returned is the impersonated one.
C6_ImpersonatedIdentityOnly ==
    ImpersonationAccepted =>
        /\ matchCalled => matchArgs.a = <<RequestedIdentity>>
        /\ result.authorized =>
              /\ Len(csr.URIs) = 1
              /\ URLString(csr.URIs[1]) = RequestedIdentity
              /\ result.identity = RequestedIdentity
        /\ ( /\ matchCalled
             /\ SameMultiset(FirstCaller.Identities, URIStrings(csr.URIs))
             /\ FirstCaller.Identities # <<RequestedIdentity>> )
           => Denied("IdentityMismatch")

\* an accepted impersonation was denied for a CSR that names the Caller's
\* own identity
C6_Witness ==
    /\ ImpersonationAccepted
    /\ matchCalled
    /\ SameMultiset(FirstCaller.Identities, URIStrings(csr.URIs))
    /\ FirstCaller.Identities # <<RequestedIdentity>>
    /\ reason = "IdentityMismatch"

\* C7: with the impersonatedIdentity entry absent or empty the list compared
\* with the CSR is the Caller's identity list, and when every step passes
\* and the URI SANs equal the Caller's identities as a multiset the result
\* is Authorized with the Caller's identities joined by "," in their order.
C7_SuccessWithoutImpersonation ==
    ~ImpersonationRequested =>
        /\ nodeAuthCalls = <<>>
        /\ matchCalled => matchArgs.a = FirstCaller.Identities
        /\ ( /\ pc = "done"
             /\ SomeSucceeded
             /\ Len(FirstCaller.Identities) > 0
             /\ OpOK("parse")
             /\ OpOK("signature")
             /\ ~CarriesIPOrEmail
             /\ OpOK("extensions")
             /\ SameMultiset(FirstCaller.Identities, URIStrings(csr.URIs)) )
           => /\ result.authorized
              /\ reason = "Authorized"
              /\ result.identity = JoinedByComma(FirstCaller.Identities)

\* a Caller with two distinct identities was authorized for a CSR that
\* lists them in the other order
C7_Witness ==
    /\ result.authorized
    /\ ~ImpersonationRequested
    /\ Len(FirstCaller.Identities) = 2
    /\ FirstCaller.Identities[1] # FirstCaller.Identities[2]
    /\ FirstCaller.Identities # URIStrings(csr.URIs)

\* C9: a decoded CSR with an IP SAN or an email SAN is never authorized and
\* never reaches identitiesMatch, whatever its URI SANs; once its signature
\* verified the denial is ForbiddenExtension.
C9_IPOrEmailDenied ==
    /\ (OpOK("parse") /\ CarriesIPOrEmail) =>
          /\ ~result.authorized
          /\ ~matchCalled
          /\ (pc = "done" /\ OpOK("signature")) => Denied("ForbiddenExtension")
    /\ matchCalled => (csr.IPAddresses = <<>> /\ csr.EmailAddresses = <<>>)

\* a CSR whose URI SANs match the validated identities was denied for its
\* IP SAN
C9_Witness ==
    /\ pc = "done"
    /\ reason = "ForbiddenExtension"
    /\ csr.IPAddresses # <<>>
    /\ csr.EmailAddresses = <<>>
    /\ csr.URIs # <<>>
    /\ SameMultiset(ValidatedIdentities, URIStrings(csr.URIs))

\* C10: when the first successful authenticator returns a Caller without
\* identities the result is Denied(NoIdentity) with identity "": no later
\* authenticator is tried, the node authorizer is not asked and the CSR is
\* not examined.
C10_NoIdentityDenied ==
    (SomeSucceeded /\ FirstCaller.Identities = <<>>) =>
        /\ Len(invoked) = FirstSuccess
        /\ nodeAuthCalls = <<>>
        /\ csrOps = <<>>
        /\ ~matchCalled
        /\ pc = "done" =>
              /\ reason = "NoIdentity"
              /\ result = [identity |-> EmptyStr, authorized |-> FALSE]

\* a Caller without identities was denied although an impersonation was
\* requested, a node authorizer is configured and an authenticator is left
C10_Witness ==
    /\ pc = "done"
    /\ SomeSucceeded
    /\ FirstCaller.Identities = <<>>
    /\ ImpersonationRequested
    /\ nodeAuthorizer
    /\ Len(invoked) < Len(authenticators)

\* the identity string fixed by the impersonation step
ResolvedIdentity ==
    IF ImpersonationRequested THEN RequestedIdentity
                              ELSE JoinedByComma(FirstCaller.Identities)

\* the pipeline is past the impersonation step
PastImpersonation ==
    pc \in {"parseCSR", "checkSignature", "checkSANs", "validateExtensions", "match"}
    \/ (pc = "done" /\ csrOps # <<>>)

\* C11: once the impersonation step has completed the identity string is
\* fixed: it does not change with any later step and it is the string
\* returned with every later outcome, Authorized or Denied, whatever the CSR.
C11_IdentityFixedAfterImpersonation ==
    /\ PastImpersonation => identities = ResolvedIdentity
    /\ (pc = "done" /\ csrOps # <<>>) => result.identity = ResolvedIdentity

\* a request was denied for its CSR and returned a non-empty identity string
C11_Witness ==
    /\ pc = "done"
    /\ ~result.authorized
    /\ reason \in {"CSRDecodeError", "SignatureInvalid", "ForbiddenExtension",
                   "ForbiddenCustomExtension", "IdentityMismatch"}
    /\ result.identity # EmptyStr

\* some call was made, or some operation performed, after ctx was cancelled
WorkedAfterCancel ==
    \/ \E k \in 1..Len(invoked) : invoked[k].GrpcContext.done
    \/ (ctxDone /\ (nodeAuthCalls # <<>> \/ csrOps # <<>>))

\* C12 as stated: every collaborator call, the node authorizer's included,
\* receives the session context, and once ctx is cancelled no further
\* authenticator call, node authorizer call, CSR operation or identity match
\* is made and the result is not authorized.
C12_Original ==
    [][ /\ \A k \in 1..Len(invoked') :
              invoked'[k].GrpcContext.name = "session"
        /\ \A k \in 1..Len(nodeAuthCalls') :
              "GrpcContext" \in DOMAIN nodeAuthCalls'[k]
        /\ ctxDone =>
              /\ invoked' = invoked
              /\ nodeAuthCalls' = nodeAuthCalls
              /\ csrOps' = csrOps
              /\ matchCalled' = matchCalled
              /\ ~result'.authorized ]_vars

\* C12 amended: every authenticator call receives the session context
\* unchanged, in the state it has at the time of the call; the node
\* authorizer call is made with the platform metadata and the impersonated
\* identity only; no step of the pipeline changes the context.
C12_ContextToAuthenticators ==
    [][ /\ \A k \in 1..Len(invoked') :
              invoked'[k].GrpcContext.name = "session"
        /\ Len(invoked') > Len(invoked) =>
              invoked'[Len(invoked')].GrpcContext = SessionContext
        /\ \A k \in 1..Len(nodeAuthCalls') :
              DOMAIN nodeAuthCalls'[k] = {"info", "identity", "allowed"}
        /\ ctxDone' # ctxDone =>
              UNCHANGED <<config, request, pc, locals, returned, calls, matching>> ]_vars

\* a request was authorized although ctx was cancelled before its first
\* authenticator call
C12_Witness ==
    /\ pc = "done"
    /\ result.authorized
    /\ invoked # <<>>
    /\ invoked[1].GrpcContext.done
    /\ nodeAuthCalls # <<>>

\* the result of an invocation as a function of its own request and of the
\* answers its own collaborator calls gave
ResultOfOwnRun ==
    IF ~SomeSucceeded \/ FirstCaller.Identities = <<>>
      THEN [identity |-> EmptyStr, authorized |-> FALSE]
    ELSE IF ImpersonationRequested /\ ~ImpersonationAccepted
      THEN [identity |-> EmptyStr, authorized |-> FALSE]
    ELSE [identity |-> ResolvedIdentity,
          authorized |-> /\ OpOK("parse")
                         /\ OpOK("signature")
                         /\ ~CarriesIPOrEmail
                         /\ OpOK("extensions")
                         /\ SameMultiset(ValidatedIdentities, URIStrings(csr.URIs))]

C14_EarlyDenialsReturnEmptyIdentity ==
    /\ (pc = "done" /\ csrOps = <<>>) =>
          /\ result = [identity |-> EmptyStr, authorized |-> FALSE]
          /\ reason \in {"AuthenticationFailed", "NoIdentity",
                         "ImpersonationNotConfigured", "ImpersonationDenied"}
    /\ (pc = "done" /\ reason \in {"AuthenticationFailed", "NoIdentity",
                                   "ImpersonationNotConfigured", "ImpersonationDenied"})
          => (result.identity = EmptyStr /\ csrOps = <<>>)
    /\ ImpersonationRefused => (pc = "done" /\ result.identity = EmptyStr)

\* a Caller with a non-empty identity asked for an impersonation that the
\* node authorizer refused
C14_Witness ==
    /\ pc = "done"
    /\ ImpersonationRefused
    /\ RequestedIdentity # EmptyStr
    /\ FirstCaller.Identities # <<>>
    /\ FirstCaller.Identities[1] # EmptyStr

\* the CSR validation steps in their order, each with its denial reason
CSRSteps ==
    << [op |-> "parse",      why |-> "CSRDecodeError"],
       [op |-> "signature",  why |-> "SignatureInvalid"],
       [op |-> "sans",       why |-> "ForbiddenExtension"],
       [op |-> "extensions", why |-> "ForbiddenCustomExtension"],
       [op |-> "match",      why |-> "IdentityMismatch"] >>

\* C15: the CSR steps run in the order decode, signature, IP/email SANs,
\* extension validator, identity match, each once and only after all earlier
\* ones passed; the denial reason is that of the one step that failed, which
\* is the earliest defect of the CSR.
C15_CSRStepsInOrder ==
    /\ Len(csrOps) <= Len(CSRSteps)
    /\ \A k \in 1..Len(csrOps) :
          /\ csrOps[k].op = CSRSteps[k].op
          /\ k < Len(csrOps) => csrOps[k].ok
    /\ (pc = "done" /\ csrOps # <<>>) =>
          IF csrOps[Len(csrOps)].ok
            THEN Len(csrOps) = Len(CSRSteps) /\ result.authorized
            ELSE Denied(CSRSteps[Len(csrOps)].why)
    /\ \A k \in 1..Len(csrOps) :
          csrOps[k].op = "sans" => csrOps[k].ok = ~CarriesIPOrEmail
    /\ matchCalled <=> (Len(csrOps) = Len(CSRSteps))

\* a CSR with an invalid signature, an IP SAN and URI SANs that do not match
\* was denied for its signature
C15_Witness ==
    /\ Denied("SignatureInvalid")
    /\ csr.IPAddresses # <<>>
    /\ ~SameMultiset(ValidatedIdentities, URIStrings(csr.URIs))

\* the result of a request without impersonation, stated without the node
\* authorizer
ResultWithoutImpersonation ==
    IF ~SomeSucceeded \/ FirstCaller.Identities = <<>>
      THEN [identity |-> EmptyStr, authorized |-> FALSE]
      ELSE [identity |-> JoinedByComma(FirstCaller.Identities),
            authorized |-> /\ OpOK("parse")
                           /\ OpOK("signature")
                           /\ ~CarriesIPOrEmail
                           /\ OpOK("extensions")
                           /\ SameMultiset(FirstCaller.Identities,
                                           URIStrings(csr.URIs))]

\* C16: for a request whose impersonatedIdentity is absent or empty the
\* node authorizer is never called and the result does not depend on whether
\* one is configured; the node authorizer is called at most once, and only
\* after authentication succeeded with a non-empty identity list.
C16_NodeAuthorizerOnlyForImpersonation ==
    /\ ~ImpersonationRequested =>
          /\ nodeAuthCalls = <<>>
          /\ reason # "ImpersonationNotConfigured"
          /\ pc = "done" => result = ResultWithoutImpersonation
    /\ Len(nodeAuthCalls) <= 1
    /\ nodeAuthCalls # <<>> =>
          /\ nodeAuthorizer
          /\ SomeSucceeded
          /\ FirstCaller.Identities # <<>>
          /\ pc \notin {"authenticate", "checkFound", "checkIdentities", "impersonation"}

\* a request without impersonation was authorized by a Server without node
\* authorizer
C16_Witness ==
    /\ pc = "done"
    /\ ~ImpersonationRequested
    /\ ~nodeAuthorizer
    /\ result.authorized

\* C17: identitiesMatch sorts copies: after the call the Caller's identity
\* list and the CSR's URI list hold the same elements in the same order as
\* before it, whatever it returned.
C17_MatchLeavesArgumentsUnchanged ==
    matchCalled =>
        /\ csr.URIs = matchArgs.b
        /\ caller.Identities = FirstCaller.Identities
        /\ ~ImpersonationRequested => caller.Identities = matchArgs.a

\* identitiesMatch accepted two lists of which neither was sorted
C17_Witness ==
    /\ matchCalled
    /\ matchResult
    /\ ~ImpersonationRequested
    /\ Len(matchArgs.a) = 2
    /\ StrLess(matchArgs.a[2], matchArgs.a[1])
    /\ StrLess(URLString(matchArgs.b[2]), URLString(matchArgs.b[1]))

\* the outcomes authRequest can end in
TerminalReasons ==
    {"Authorized", "AuthenticationFailed", "NoIdentity",
     "ImpersonationNotConfigured", "ImpersonationDenied", "CSRDecodeError",
     "SignatureInvalid", "ForbiddenExtension", "ForbiddenCustomExtension",
     "IdentityMismatch"}

\* no collaborator call and no CSR operation was made twice
NoStepRepeated ==
    /\ \A j, k \in 1..Len(invoked) :
          invoked[j].authenticator = invoked[k].authenticator => j = k
    /\ Len(nodeAuthCalls) <= 1
    /\ \A j, k \in 1..Len(csrOps) : csrOps[j].op = csrOps[k].op => j = k

\* an upper bound of the number of steps authRequest has left
StepsLeft ==
    CASE pc = "authenticate" -> 10 + ((Len(authenticators) + 1) - idx)
      [] pc = "checkFound" -> 9
      [] pc = "checkIdentities" -> 8
      [] pc = "impersonation" -> 7
      [] pc = "authenticateImpersonation" -> 6
      [] pc = "parseCSR" -> 5
      [] pc = "checkSignature" -> 4
      [] pc = "checkSANs" -> 3
      [] pc = "validateExtensions" -> 2
      [] pc = "match" -> 1
      [] OTHER -> 0

\* authRequest waits for Authenticate or ParsePemEncodedCSR to return
AwaitingCall ==
    \/ (pc = "authenticate" /\ idx <= Len(authenticators))
    \/ pc = "parseCSR"

\* identitiesMatch is about to be called: it is defined on any two lists
MatchReady == pc = "match"

\* a call is about to return or a step of authRequest itself is possible
CanStep ==
    \/ AwaitingCall
    \/ MatchReady
    \/ ENABLED AuthenticateExhausted
    \/ ENABLED CheckFound
    \/ ENABLED CheckIdentities
    \/ ENABLED ReadImpersonatedIdentity
    \/ ENABLED AuthenticateImpersonation
    \/ ENABLED CheckSignature
    \/ ENABLED CheckSANs
    \/ ENABLED ValidateCSRExtentions

\* C18: every invocation, for every configuration and request, reaches a
\* terminal outcome, Authorized or Denied(reason): until it has returned a
\* step is always possible (no crash), every step brings the return nearer
\* (the number of steps left is bounded and decreases), the outcome is the
\* only one (no step follows the return), every failure is
\* authorized = false, and no step is repeated.
C18_Terminates ==
    /\ [](pc # "done" => CanStep)
    /\ [](StepsLeft >= 0 /\ (StepsLeft = 0 <=> pc = "done"))
    /\ [][StepsLeft' < StepsLeft]_vars
    /\ [][pc # "done"]_vars
    /\ [](pc = "done" =>
            /\ reason \in TerminalReasons
            /\ result.authorized <=> reason = "Authorized")
    /\ [](pc # "done" => (reason = "Running" /\ ~result.authorized))
    /\ []NoStepRepeated

\* a call for a request without metadata and with CSR bytes that do not
\* decode returned a denial
C18_Witness ==
    /\ Denied("CSRDecodeError")
    /\ metadata.kind = "nil"
    /\ csrOps = <<[op |-> "parse", ok |-> FALSE]>>

====
